---- MODULE Spec2Model ----
(***************************************************************************)
(* Policy based mutexes of storage/innobase/include/ib0mutex.h:            *)
(* OSTrackMutex, TTASMutex, TTASFutexMutex and TTASEventMutex behind the   *)
(* PolicyMutex facade, as a state machine of threads whose steps are the   *)
(* accesses to the shared words (lock word, waiter flag, event, OS mutex). *)
(* A debug build with UNIV_PFS_MUTEX is modelled: ut_ad and ut_a are both  *)
(* active, and a failed assertion stops the process.                       *)
(***************************************************************************)
EXTENDS Integers, Sequences, FiniteSets, TLC

(* ------------------------------ bounds --------------------------------- *)

\* Number of threads that use the one mutex.
NThreads == 3

\* Largest max_spins argument a caller passes to enter (0 .. MaxSpinsArg).
MaxSpinsArg == 1

\* Cap on n_spins: a spin that fails is taken only while n_spins < MaxCount.
MaxCount == 2

\* Cap on n_waits: a thread goes to sleep at most MaxWaits times per enter.
MaxWaits == 1

\* Largest max_spins argument of the callers that exercise the spin budget.
MaxSpinsWide == 2

\* Number of my_rnd calls made on each generator.
MaxRndCalls == 3

(* -------------------------- program constants -------------------------- *)

MUTEX_STATE_UNLOCKED == 0

MUTEX_STATE_LOCKED == 1

MUTEX_STATE_WAITERS == 2

\* The literal 4 passed as `spin` to wait() by spin_and_try_lock.
WaitSpin == 4

Threads == 1 .. NThreads

Impls == {"OSTrackMutex", "TTASMutex", "TTASFutexMutex", "TTASEventMutex"}

(* ------------------------------- state --------------------------------- *)

VARIABLES
  impl,         \* the MutexImpl the PolicyMutex is instantiated with
  live,         \* the caller has run init() and not yet destroy()
  m_lock_word,  \* TTAS*Mutex::m_lock_word
  m_waiters,    \* TTASEventMutex::m_waiters
  m_event,      \* TTASEventMutex::m_event (0: null, 1: an event)
  m_freed,      \* OSTrackMutex::m_freed
  m_locked,     \* OSTrackMutex::m_locked
  os_owner,     \* OSTrackMutex::m_mutex: the thread that owns it, or 0
  m_ptr,        \* PolicyMutex::m_ptr (0: null, 1: a PSI_mutex)
  failed,       \* "none", or the assertion that failed and stopped the process
  pol_owner,    \* policy record: thread of the last locked() not yet released
  pc,           \* each thread's position
  holds,        \* each thread: between its acquiring step and its releasing write
  max_spins,    \* enter's local/parameter max_spins
  step,         \* enter's local step
  n_spins,      \* enter's local n_spins
  n_waits,      \* enter's local n_waits
  wait_i,       \* wait()'s retry index i
  ret,          \* trylock's local ret (-1: none)
  hooks,        \* policy and PSI calls of the thread's current/last facade call
  calls,        \* delay / yield / wait / futex_wait calls of the current enter
  added,        \* arguments of the policy.add calls of the current enter
  cell,         \* wait array: "none", "reserved", "signalled"
  innodb_calling_exit,  \* the global flag the server sets when it shuts down
  ulong_bits,   \* width of unsigned long in the build: 32 or 64
  rand_st,      \* each generator's my_rnd_struct: seed1, seed2
  rnd_calls,    \* each generator: my_rnd calls made since my_rnd_init
  rnd_ret       \* each generator: numerator of the last value my_rnd returned

\* What the mutex code never writes: the shutdown flag and the generators.
outside == <<innodb_calling_exit, ulong_bits, rand_st, rnd_calls, rnd_ret>>

shared == <<outside, impl, live, m_lock_word, m_waiters, m_event, m_freed, m_locked,
            os_owner, m_ptr, failed, pol_owner>>

locals == <<max_spins, step, n_spins, n_waits, wait_i>>

vars == <<impl, live, m_lock_word, m_waiters, m_event, m_freed, m_locked,
          os_owner, m_ptr, failed, pol_owner, pc, holds, max_spins, step,
          n_spins, n_waits, wait_i, ret, hooks, calls, added, cell,
          innodb_calling_exit, ulong_bits, rand_st, rnd_calls, rnd_ret>>

Running == failed = "none"

(* ------------------------- atomic primitives --------------------------- *)

\* TTASMutex::try_lock: CAS UNLOCKED -> LOCKED.
TTASMutex_try_lock(w) ==
  [ok |-> w = MUTEX_STATE_UNLOCKED,
   word |-> IF w = MUTEX_STATE_UNLOCKED THEN MUTEX_STATE_LOCKED ELSE w]

\* A try_lock that swaps LOCKED in instead of comparing first.
TTASFutexMutex_try_lock_swap(w) ==
  [ok |-> w = MUTEX_STATE_UNLOCKED, word |-> MUTEX_STATE_LOCKED]

\* TTASFutexMutex::try_lock: CAS UNLOCKED -> LOCKED.
TTASFutexMutex_try_lock(w) ==
  [ok |-> w = MUTEX_STATE_UNLOCKED,
   word |-> IF w = MUTEX_STATE_UNLOCKED THEN MUTEX_STATE_LOCKED ELSE w]

\* A tas_lock that reports success whatever the word held.
tas_lock_blind(w) ==
  [ok |-> TRUE, word |-> MUTEX_STATE_LOCKED]

\* TTASEventMutex::tas_lock: swap LOCKED in, success iff UNLOCKED came out.
tas_lock(w) ==
  [ok |-> w = MUTEX_STATE_UNLOCKED, word |-> MUTEX_STATE_LOCKED]

\* TTASEventMutex::tas_unlock: store UNLOCKED.
tas_unlock(w) == MUTEX_STATE_UNLOCKED

\* TTASEventMutex::try_lock.
TTASEventMutex_try_lock(w) == tas_lock(w)

\* An exit that wakes when the word it swapped out was LOCKED.
TTASFutexMutex_exit_wakes_wrong(old) == old = MUTEX_STATE_LOCKED

\* TTASFutexMutex::exit: futex_wake is called iff the swapped-out word was WAITERS.
TTASFutexMutex_exit_wakes(old) == old = MUTEX_STATE_WAITERS

\* A set_waiters that leaves the flag as it is.
set_waiters_lost(w) == w

\* TTASEventMutex::set_waiters.
set_waiters(w) == 1

\* TTASEventMutex::clear_waiters.
clear_waiters(w) == 0

(* ---------------------- instrumentation (PSI) hooks -------------------- *)

\* PolicyMutex::pfs_begin_lock: a span is begun only with a non-null handle.
pfs_begin_lock(ptr) == IF ptr # 0 THEN <<"start_mutex_wait(LOCK)">> ELSE <<>>

\* PolicyMutex::pfs_begin_trylock.
pfs_begin_trylock(ptr) == IF ptr # 0 THEN <<"start_mutex_wait(TRYLOCK)">> ELSE <<>>

\* PolicyMutex::pfs_end(locker, ret): the locker is non-null iff the handle is.
pfs_end(ptr, rc) ==
  IF ptr # 0
  THEN <<IF rc = 0 THEN "end_mutex_wait(0)" ELSE "end_mutex_wait(1)">>
  ELSE <<>>

\* PolicyMutex::pfs_exit.
pfs_exit(ptr) == IF ptr # 0 THEN <<"unlock_mutex">> ELSE <<>>

(* ------------------------------- my_rnd -------------------------------- *)

\* my_rnd_init: rand_st->max_value = 0x3FFFFFFFL.
max_value == 1073741823

\* An unsigned value is kept as two limbs, hi * RADIX + lo with lo < RADIX, so
\* that sums above 2^31 can be computed; RADIX = 2^30 = max_value + 1.
RADIX == max_value + 1

Limbs(h, l) == [hi |-> h + (l \div RADIX), lo |-> l % RADIX]

Plus(a, b) == Limbs(a.hi + b.hi, a.lo + b.lo)

\* An unsigned long that keeps 31 bits only in a 32-bit build.
ulong_wrap_31(bits, a) == [hi |-> IF bits = 32 THEN a.hi % 2 ELSE a.hi, lo |-> a.lo]

\* What an unsigned long of `bits` bits keeps of a value: 2^32 = 4 * RADIX.
\* The values of this model stay below 2^61, so 64 bits keep all of them.
ulong_wrap(bits, a) == [hi |-> IF bits = 32 THEN a.hi % 4 ELSE a.hi, lo |-> a.lo]

\* x % max_value for a two-limb x: RADIX % max_value = 1, so
\* x = hi * RADIX + lo is congruent to hi + lo.
mod_max_value(a) == ((a.hi % max_value) + (a.lo % max_value)) % max_value

\* A seed masked with max_value instead of reduced modulo it.
my_rnd_init_seed_masked(a) == a.lo

\* my_rnd_init: rand_st->seed1 = seed1 % rand_st->max_value (and seed2 alike).
my_rnd_init_seed(a) == mod_max_value(a)

my_rnd_init(seed1, seed2) ==
  [seed1 |-> my_rnd_init_seed(seed1), seed2 |-> my_rnd_init_seed(seed2)]

\* my_rnd, first statement: (seed1 * 3 + seed2) % max_value in unsigned long.
my_rnd_seed1(bits, st) ==
  LET s == Limbs(0, st.seed1)
      times3 == ulong_wrap(bits, Plus(Plus(s, s), s))
  IN  mod_max_value(ulong_wrap(bits, Plus(times3, Limbs(0, st.seed2))))

\* my_rnd, second statement: (seed1 + seed2 + 33) % max_value, seed1 the new one.
my_rnd_seed2(bits, new1, st) ==
  LET sum == ulong_wrap(bits, Plus(Limbs(0, new1), Limbs(0, st.seed2)))
  IN  mod_max_value(ulong_wrap(bits, Plus(sum, Limbs(0, 33))))

my_rnd(bits, st) ==
  LET new1 == my_rnd_seed1(bits, st)
  IN  [seed1 |-> new1, seed2 |-> my_rnd_seed2(bits, new1, st)]

Generators == {1, 2}

\* The unsigned long values a caller passes as seeds: around 0, around
\* max_value, the largest 32-bit value and, in a 64-bit build, values above it.
SeedInputs(bits) ==
  {Limbs(0, 0), Limbs(0, 1), Limbs(0, max_value - 1), Limbs(0, max_value),
   Limbs(1, 0), Limbs(3, RADIX - 1)}
  \cup (IF bits = 64 THEN {Limbs(4, 0), Limbs(2147483647, RADIX - 1)} ELSE {})

\* The generators while only the mutex is used: as after my_rnd_init(st, 0, 0).
RndIdle ==
  /\ ulong_bits = 64
  /\ rand_st = [g \in Generators |-> my_rnd_init(Limbs(0, 0), Limbs(0, 0))]
  /\ rnd_calls = [g \in Generators |-> 0]
  /\ rnd_ret = [g \in Generators |-> 0]

(* ------------------------------- Init ---------------------------------- *)

\* The per-thread part of every initial state: no call in progress.
ThreadsIdle ==
  /\ pc = [t \in Threads |-> "idle"]
  /\ holds = [t \in Threads |-> FALSE]
  /\ max_spins = [t \in Threads |-> 0]
  /\ step = [t \in Threads |-> 0]
  /\ n_spins = [t \in Threads |-> 0]
  /\ n_waits = [t \in Threads |-> 0]
  /\ wait_i = [t \in Threads |-> 0]
  /\ ret = [t \in Threads |-> -1]
  /\ hooks = [t \in Threads |-> <<>>]
  /\ calls = [t \in Threads |-> <<>>]
  /\ added = [t \in Threads |-> <<>>]
  /\ cell = [t \in Threads |-> "none"]

\* The state the constructors leave: unlocked, freed, no event, no PSI handle.
Constructed ==
  /\ live = FALSE
  /\ m_lock_word = MUTEX_STATE_UNLOCKED
  /\ m_waiters = 0
  /\ m_event = 0
  /\ m_freed = TRUE
  /\ m_locked = FALSE
  /\ os_owner = 0
  /\ m_ptr = 0
  /\ failed = "none"
  /\ pol_owner = 0
  /\ ThreadsIdle

\* A constructed mutex in a server that is not shutting down.
Init ==
  /\ impl \in Impls
  /\ Constructed
  /\ innodb_calling_exit = FALSE
  /\ RndIdle

(* ----------------------------- lifecycle ------------------------------- *)

\* The m_freed assertions compiled out.
freed_assert_off == FALSE

\* ut_ad(innodb_calling_exit || !m_freed) fails.
freed_assert == ~innodb_calling_exit /\ m_freed

\* What a call on OSTrackMutex::m_mutex can do: m_mutex is initialised exactly
\* while !m_freed (init, destroy); a call on it while it is not initialised is
\* undefined: it may work, or stop the process.
os_mutex_outcomes == IF m_freed THEN {"ok", "undefined"} ELSE {"ok"}

\* The assertion MutexImpl::init fails on, or "none".
ImplInitAssert ==
  CASE impl = "OSTrackMutex" ->
         IF ~m_freed THEN "OSTrackMutex::init: m_freed"
         ELSE IF m_locked THEN "OSTrackMutex::init: !m_locked" ELSE "none"
    [] impl = "TTASEventMutex" ->
         IF m_event # 0 THEN "TTASEventMutex::init: m_event == 0"
         ELSE IF m_lock_word # MUTEX_STATE_UNLOCKED
              THEN "TTASEventMutex::init: m_lock_word == UNLOCKED" ELSE "none"
    [] OTHER ->
         IF m_lock_word # MUTEX_STATE_UNLOCKED
         THEN "init: m_lock_word == UNLOCKED" ELSE "none"

\* PolicyMutex::init: pfs_add, then m_impl.init, then policy().init.
\* p is what PSI's init_mutex returns: a handle, or null when it is disabled.
PolicyMutex_init(p) ==
  /\ Running
  /\ IF m_ptr # 0
     THEN /\ failed' = "PolicyMutex::pfs_add: m_ptr == 0"
          /\ UNCHANGED <<m_ptr, m_event, m_freed, live>>
     ELSE /\ m_ptr' = p
          /\ IF ImplInitAssert # "none"
             THEN /\ failed' = ImplInitAssert
                  /\ UNCHANGED <<m_event, m_freed, live>>
             ELSE /\ m_event' = IF impl = "TTASEventMutex" THEN 1 ELSE m_event
                  /\ m_freed' = IF impl = "OSTrackMutex" THEN FALSE ELSE m_freed
                  /\ live' = TRUE
                  /\ UNCHANGED failed
  /\ UNCHANGED <<outside, impl, m_lock_word, m_waiters, m_locked, os_owner, pol_owner>>
  /\ UNCHANGED <<pc, holds, locals, ret, hooks, calls, added, cell>>

\* The assertion MutexImpl::destroy fails on, or "none".
ImplDestroyAssert ==
  CASE impl = "OSTrackMutex" ->
         IF m_locked THEN "OSTrackMutex::destroy: !m_locked"
         ELSE IF freed_assert THEN "OSTrackMutex::destroy: !m_freed" ELSE "none"
    [] OTHER ->
         IF m_lock_word # MUTEX_STATE_UNLOCKED
         THEN "destroy: m_lock_word == UNLOCKED" ELSE "none"

\* PolicyMutex::destroy: pfs_del, then m_impl.destroy, then policy().destroy.
PolicyMutex_destroy ==
  /\ Running
  /\ m_ptr' = 0
  /\ IF ImplDestroyAssert # "none"
     THEN /\ failed' = ImplDestroyAssert
          /\ UNCHANGED <<m_event, m_freed, live>>
     ELSE \E o \in (IF impl = "OSTrackMutex" THEN os_mutex_outcomes ELSE {"ok"}) :
            IF o = "undefined"
            THEN /\ failed' = "m_mutex.destroy: not initialised"
                 /\ UNCHANGED <<m_event, m_freed, live>>
            ELSE /\ m_event' = IF impl = "TTASEventMutex" THEN 0 ELSE m_event
                 /\ m_freed' = IF impl = "OSTrackMutex" THEN TRUE ELSE m_freed
                 /\ live' = FALSE
                 /\ UNCHANGED failed
  /\ UNCHANGED <<outside, impl, m_lock_word, m_waiters, m_locked, os_owner, pol_owner>>
  /\ UNCHANGED <<pc, holds, locals, ret, hooks, calls, added, cell>>

\* The owner of the mutex initialises it once, before any thread uses it.
DoInit == ~live /\ \E p \in {0, 1} : PolicyMutex_init(p)

\* ... and destroys it when no thread is using it.
DoDestroy == live /\ (\A t \in Threads : pc[t] = "idle") /\ PolicyMutex_destroy

(* ------------------------- PolicyMutex::enter -------------------------- *)

\* An entry that sends TTASFutexMutex::enter to its park phase at once.
ImplEnterEntry_no_spin(ms) ==
  CASE impl = "OSTrackMutex" -> "d_enter"
    [] impl = "TTASMutex" -> "e_try"
    [] impl = "TTASFutexMutex" -> "f_swap"
    [] impl = "TTASEventMutex" -> "g_enter"

\* Where m_impl.enter(max_spins, ...) starts, for each implementation.
ImplEnterEntry(ms) ==
  CASE impl = "OSTrackMutex" -> "d_enter"
    [] impl = "TTASMutex" -> "e_try"
    [] impl = "TTASFutexMutex" -> IF 0 < ms THEN "f_spin" ELSE "f_swap"
    [] impl = "TTASEventMutex" -> "g_enter"

\* PolicyMutex::enter up to the call of m_impl.enter: pfs_begin_lock and
\* policy().enter; the locals of m_impl.enter are initialised.
PolicyMutex_enter(t, ms) ==
  /\ Running
  /\ hooks' = [hooks EXCEPT ![t] = pfs_begin_lock(m_ptr) \o <<"policy.enter">>]
  /\ ret' = [ret EXCEPT ![t] = -1]
  /\ max_spins' = [max_spins EXCEPT ![t] = ms]
  /\ step' = [step EXCEPT ![t] = ms]
  /\ n_spins' = [n_spins EXCEPT ![t] = 0]
  /\ n_waits' = [n_waits EXCEPT ![t] = 0]
  /\ wait_i' = [wait_i EXCEPT ![t] = 0]
  /\ calls' = [calls EXCEPT ![t] = <<>>]
  /\ added' = [added EXCEPT ![t] = <<>>]
  /\ pc' = [pc EXCEPT ![t] = ImplEnterEntry(ms)]
  /\ UNCHANGED <<shared, holds, cell>>

\* m_impl.enter has returned: policy().locked, pfs_end(locker, 0), return.
PolicyMutex_enter_locked(t) ==
  /\ Running
  /\ pc[t] = "p_locked"
  /\ hooks' = [hooks EXCEPT ![t] = @ \o <<"policy.locked">> \o pfs_end(m_ptr, 0)]
  /\ pol_owner' = t
  /\ pc' = [pc EXCEPT ![t] = "cs"]
  /\ max_spins' = [max_spins EXCEPT ![t] = 0]
  /\ step' = [step EXCEPT ![t] = 0]
  /\ n_spins' = [n_spins EXCEPT ![t] = 0]
  /\ n_waits' = [n_waits EXCEPT ![t] = 0]
  /\ wait_i' = [wait_i EXCEPT ![t] = 0]
  /\ calls' = [calls EXCEPT ![t] = <<>>]
  /\ added' = [added EXCEPT ![t] = <<>>]
  /\ UNCHANGED <<outside, impl, live, m_lock_word, m_waiters, m_event, m_freed, m_locked,
                 os_owner, m_ptr, failed>>
  /\ UNCHANGED <<holds, ret, cell>>

(* --------------------------- TTASMutex::enter -------------------------- *)

\* An enter whose budget does not grow after the yield.
TTASMutex_enter_no_growth(t) ==
  /\ Running
  /\ pc[t] = "e_try"
  /\ LET r == TTASMutex_try_lock(m_lock_word) IN
     IF r.ok
     THEN /\ m_lock_word' = r.word
          /\ holds' = [holds EXCEPT ![t] = TRUE]
          /\ added' = [added EXCEPT ![t] = Append(@, <<n_spins[t], 0>>)]
          /\ pc' = [pc EXCEPT ![t] = "p_locked"]
          /\ UNCHANGED <<locals, calls>>
     ELSE /\ n_spins[t] < MaxCount
          /\ m_lock_word' = r.word
          /\ n_spins' = [n_spins EXCEPT ![t] = @ + 1]
          /\ calls' = [calls EXCEPT ![t] =
                         IF n_spins[t] + 1 = max_spins[t]
                         THEN @ \o <<"ut_delay", "os_thread_yield">>
                         ELSE Append(@, "ut_delay")]
          /\ UNCHANGED <<holds, added, pc, max_spins, step, n_waits, wait_i>>
  /\ UNCHANGED <<outside, impl, live, m_waiters, m_event, m_freed, m_locked, os_owner,
                 m_ptr, failed, pol_owner>>
  /\ UNCHANGED <<ret, hooks, cell>>

\* One iteration of while (!try_lock()): on success policy.add(n_spins, 0);
\* on failure ut_delay, ++n_spins, and at n_spins == max_spins a yield and
\* max_spins += step.
TTASMutex_enter(t) ==
  /\ Running
  /\ pc[t] = "e_try"
  /\ LET r == TTASMutex_try_lock(m_lock_word) IN
     IF r.ok
     THEN /\ m_lock_word' = r.word
          /\ holds' = [holds EXCEPT ![t] = TRUE]
          /\ added' = [added EXCEPT ![t] = Append(@, <<n_spins[t], 0>>)]
          /\ pc' = [pc EXCEPT ![t] = "p_locked"]
          /\ UNCHANGED <<locals, calls>>
     ELSE /\ n_spins[t] < MaxCount
          /\ m_lock_word' = r.word
          /\ n_spins' = [n_spins EXCEPT ![t] = @ + 1]
          /\ IF n_spins[t] + 1 = max_spins[t]
             THEN /\ calls' = [calls EXCEPT ![t] = @ \o <<"ut_delay", "os_thread_yield">>]
                  /\ max_spins' = [max_spins EXCEPT ![t] = @ + step[t]]
             ELSE /\ calls' = [calls EXCEPT ![t] = Append(@, "ut_delay")]
                  /\ UNCHANGED max_spins
          /\ UNCHANGED <<holds, added, pc, step, n_waits, wait_i>>
  /\ UNCHANGED <<outside, impl, live, m_waiters, m_event, m_freed, m_locked, os_owner,
                 m_ptr, failed, pol_owner>>
  /\ UNCHANGED <<ret, hooks, cell>>

\* TTASMutex::exit: ut_ad(m_lock_word == LOCKED), then store UNLOCKED.
TTASMutex_exit(t) ==
  /\ Running
  /\ pc[t] = "x_impl"
  /\ impl = "TTASMutex"
  /\ IF m_lock_word # MUTEX_STATE_LOCKED
     THEN /\ failed' = "TTASMutex::exit: m_lock_word == LOCKED"
          /\ UNCHANGED <<m_lock_word, holds, pc>>
     ELSE /\ m_lock_word' = MUTEX_STATE_UNLOCKED
          /\ holds' = [holds EXCEPT ![t] = FALSE]
          /\ pc' = [pc EXCEPT ![t] = "idle"]
          /\ UNCHANGED failed
  /\ UNCHANGED <<outside, impl, live, m_waiters, m_event, m_freed, m_locked, os_owner,
                 m_ptr, pol_owner>>
  /\ UNCHANGED <<locals, ret, hooks, calls, added, cell>>

(* ------------------------- TTASFutexMutex::enter ----------------------- *)

\* One iteration of the spin phase, for (n_spins = 0; n_spins < max_spins;
\* n_spins++): try_lock, on success policy.add(n_spins, 0) and return, else
\* ut_delay.  When the loop ends the park phase starts with n_waits = 0.
TTASFutexMutex_enter_spin(t) ==
  /\ Running
  /\ pc[t] = "f_spin"
  /\ LET r == TTASFutexMutex_try_lock(m_lock_word) IN
     /\ m_lock_word' = r.word
     /\ IF r.ok
        THEN /\ holds' = [holds EXCEPT ![t] = TRUE]
             /\ added' = [added EXCEPT ![t] = Append(@, <<n_spins[t], 0>>)]
             /\ pc' = [pc EXCEPT ![t] = "p_locked"]
             /\ UNCHANGED <<n_spins, calls>>
        ELSE /\ calls' = [calls EXCEPT ![t] = Append(@, "ut_delay")]
             /\ n_spins' = [n_spins EXCEPT ![t] = @ + 1]
             /\ pc' = [pc EXCEPT ![t] =
                         IF n_spins[t] + 1 < max_spins[t] THEN "f_spin" ELSE "f_swap"]
             /\ UNCHANGED <<holds, added>>
  /\ UNCHANGED <<outside, impl, live, m_waiters, m_event, m_freed, m_locked, os_owner,
                 m_ptr, failed, pol_owner>>
  /\ UNCHANGED <<max_spins, step, n_waits, wait_i, ret, hooks, cell>>

\* A park phase that records no waits in policy.add.
TTASFutexMutex_enter_swap_drops_waits(t) ==
  /\ Running
  /\ pc[t] = "f_swap"
  /\ m_lock_word' = MUTEX_STATE_WAITERS
  /\ IF m_lock_word = MUTEX_STATE_UNLOCKED
     THEN /\ holds' = [holds EXCEPT ![t] = TRUE]
          /\ added' = [added EXCEPT ![t] = Append(@, <<n_spins[t], 0>>)]
          /\ pc' = [pc EXCEPT ![t] = "p_locked"]
     ELSE /\ n_waits[t] < MaxWaits
          /\ pc' = [pc EXCEPT ![t] = "f_wait"]
          /\ UNCHANGED <<holds, added>>
  /\ UNCHANGED <<outside, impl, live, m_waiters, m_event, m_freed, m_locked, os_owner,
                 m_ptr, failed, pol_owner>>
  /\ UNCHANGED <<locals, ret, hooks, calls, cell>>

\* The park phase's swap of the lock word to WAITERS: UNLOCKED came out, so
\* the lock is held, policy.add(n_spins, n_waits) and return; or futex_wait
\* is next.
TTASFutexMutex_enter_swap(t) ==
  /\ Running
  /\ pc[t] = "f_swap"
  /\ m_lock_word' = MUTEX_STATE_WAITERS
  /\ IF m_lock_word = MUTEX_STATE_UNLOCKED
     THEN /\ holds' = [holds EXCEPT ![t] = TRUE]
          /\ added' = [added EXCEPT ![t] = Append(@, <<n_spins[t], n_waits[t]>>)]
          /\ pc' = [pc EXCEPT ![t] = "p_locked"]
     ELSE /\ n_waits[t] < MaxWaits
          /\ pc' = [pc EXCEPT ![t] = "f_wait"]
          /\ UNCHANGED <<holds, added>>
  /\ UNCHANGED <<outside, impl, live, m_waiters, m_event, m_freed, m_locked, os_owner,
                 m_ptr, failed, pol_owner>>
  /\ UNCHANGED <<locals, ret, hooks, calls, cell>>

\* syscall(SYS_futex, &m_lock_word, FUTEX_WAIT_PRIVATE, WAITERS): the thread
\* sleeps if the word still holds WAITERS, else the call returns at once and
\* the loop goes round (n_waits++).
TTASFutexMutex_enter_futex_wait(t) ==
  /\ Running
  /\ pc[t] = "f_wait"
  /\ calls' = [calls EXCEPT ![t] = Append(@, "futex_wait")]
  /\ IF m_lock_word = MUTEX_STATE_WAITERS
     THEN /\ pc' = [pc EXCEPT ![t] = "f_parked"]
          /\ UNCHANGED n_waits
     ELSE /\ pc' = [pc EXCEPT ![t] = "f_swap"]
          /\ n_waits' = [n_waits EXCEPT ![t] = @ + 1]
  /\ UNCHANGED <<shared, holds, max_spins, step, n_spins, wait_i, ret, hooks,
                 added, cell>>

\* futex_wait returns without a wake (a signal): the loop goes round.
TTASFutexMutex_enter_spurious(t) ==
  /\ Running
  /\ pc[t] = "f_parked"
  /\ pc' = [pc EXCEPT ![t] = "f_swap"]
  /\ n_waits' = [n_waits EXCEPT ![t] = @ + 1]
  /\ UNCHANGED <<shared, holds, max_spins, step, n_spins, wait_i, ret, hooks,
                 calls, added, cell>>

\* TTASFutexMutex::exit, the swap of the lock word to UNLOCKED.
TTASFutexMutex_exit(t) ==
  /\ Running
  /\ pc[t] = "x_impl"
  /\ impl = "TTASFutexMutex"
  /\ m_lock_word' = MUTEX_STATE_UNLOCKED
  /\ holds' = [holds EXCEPT ![t] = FALSE]
  /\ pc' = [pc EXCEPT ![t] =
              IF TTASFutexMutex_exit_wakes(m_lock_word) THEN "x_wake" ELSE "idle"]
  /\ UNCHANGED <<outside, impl, live, m_waiters, m_event, m_freed, m_locked, os_owner,
                 m_ptr, failed, pol_owner>>
  /\ UNCHANGED <<locals, ret, hooks, calls, added, cell>>

\* The threads asleep in futex_wait on the lock word.
Parked == {u \in Threads : pc[u] = "f_parked"}

\* TTASFutexMutex::exit, syscall(SYS_futex, &m_lock_word, FUTEX_WAKE_PRIVATE, 1):
\* one sleeping thread, if there is one, returns from futex_wait (n_waits++).
TTASFutexMutex_exit_wake(t) ==
  /\ Running
  /\ pc[t] = "x_wake"
  /\ IF Parked = {}
     THEN /\ pc' = [pc EXCEPT ![t] = "idle"]
          /\ UNCHANGED n_waits
     ELSE \E u \in Parked :
            /\ pc' = [pc EXCEPT ![t] = "idle", ![u] = "f_swap"]
            /\ n_waits' = [n_waits EXCEPT ![u] = @ + 1]
  /\ UNCHANGED <<shared, holds, max_spins, step, n_spins, wait_i, ret, hooks,
                 calls, added, cell>>

(* ------------------------- TTASEventMutex::enter ----------------------- *)

\* An enter that records add(0, 0) when its first try_lock succeeds.
TTASEventMutex_enter_adds(t) ==
  /\ Running
  /\ pc[t] = "g_enter"
  /\ LET r == TTASEventMutex_try_lock(m_lock_word) IN
     /\ m_lock_word' = r.word
     /\ IF r.ok
        THEN /\ holds' = [holds EXCEPT ![t] = TRUE]
             /\ added' = [added EXCEPT ![t] = Append(@, <<0, 0>>)]
             /\ pc' = [pc EXCEPT ![t] = "p_locked"]
        ELSE /\ pc' = [pc EXCEPT ![t] = "g_isfree"]
             /\ UNCHANGED <<holds, added>>
  /\ UNCHANGED <<outside, impl, live, m_waiters, m_event, m_freed, m_locked, os_owner,
                 m_ptr, failed, pol_owner>>
  /\ UNCHANGED <<locals, ret, hooks, calls, cell>>

\* TTASEventMutex::enter: try_lock, and spin_and_try_lock when it fails
\* (n_spins = 0, n_waits = 0, step = max_spins, then the first is_free call,
\* whose ut_ad(n_spins <= max_spins) holds of 0).
TTASEventMutex_enter(t) ==
  /\ Running
  /\ pc[t] = "g_enter"
  /\ LET r == TTASEventMutex_try_lock(m_lock_word) IN
     /\ m_lock_word' = r.word
     /\ IF r.ok
        THEN /\ holds' = [holds EXCEPT ![t] = TRUE]
             /\ pc' = [pc EXCEPT ![t] = "p_locked"]
        ELSE /\ pc' = [pc EXCEPT ![t] = "g_isfree"]
             /\ UNCHANGED holds
  /\ UNCHANGED <<outside, impl, live, m_waiters, m_event, m_freed, m_locked, os_owner,
                 m_ptr, failed, pol_owner>>
  /\ UNCHANGED <<locals, ret, hooks, calls, added, cell>>

\* The assertion at the head of is_free(max_spins, max_delay, n_spins).
is_free_assert(ns, ms) ==
  IF ns <= ms THEN "none" ELSE "TTASEventMutex::is_free: n_spins <= max_spins"

\* An is_free that tests n_spins < max_spins before its first delay, as a
\* while loop does.
TTASEventMutex_is_free_while(t) ==
  /\ Running
  /\ pc[t] = "g_isfree"
  /\ IF m_lock_word = MUTEX_STATE_UNLOCKED
     THEN /\ pc' = [pc EXCEPT ![t] = "g_try"]
          /\ UNCHANGED <<n_spins, max_spins, n_waits, calls>>
     ELSE IF n_spins[t] < max_spins[t]
          THEN /\ n_spins[t] < MaxCount
               /\ n_spins' = [n_spins EXCEPT ![t] = @ + 1]
               /\ calls' = [calls EXCEPT ![t] = Append(@, "ut_delay")]
               /\ UNCHANGED <<pc, max_spins, n_waits>>
          ELSE /\ n_waits[t] < MaxWaits
               /\ max_spins' = [max_spins EXCEPT ![t] = n_spins[t] + step[t]]
               /\ n_waits' = [n_waits EXCEPT ![t] = @ + 1]
               /\ calls' = [calls EXCEPT ![t] = @ \o <<"os_thread_yield", "wait">>]
               /\ pc' = [pc EXCEPT ![t] = "w_reserve"]
               /\ UNCHANGED n_spins
  /\ UNCHANGED <<shared, holds, step, wait_i, ret, hooks, added, cell>>

\* A spin_and_try_lock that grows the budget from the old max_spins, not from
\* n_spins.
TTASEventMutex_is_free_grows_old(t) ==
  /\ Running
  /\ pc[t] = "g_isfree"
  /\ IF m_lock_word = MUTEX_STATE_UNLOCKED
     THEN /\ pc' = [pc EXCEPT ![t] = "g_try"]
          /\ UNCHANGED <<n_spins, max_spins, n_waits, calls>>
     ELSE /\ n_spins[t] < MaxCount
          /\ n_spins' = [n_spins EXCEPT ![t] = @ + 1]
          /\ IF n_spins[t] + 1 < max_spins[t]
             THEN /\ calls' = [calls EXCEPT ![t] = Append(@, "ut_delay")]
                  /\ UNCHANGED <<pc, max_spins, n_waits>>
             ELSE /\ n_waits[t] < MaxWaits
                  /\ max_spins' = [max_spins EXCEPT ![t] = @ + step[t]]
                  /\ n_waits' = [n_waits EXCEPT ![t] = @ + 1]
                  /\ calls' = [calls EXCEPT ![t] =
                                 @ \o <<"ut_delay", "os_thread_yield", "wait">>]
                  /\ pc' = [pc EXCEPT ![t] = "w_reserve"]
  /\ UNCHANGED <<shared, holds, step, wait_i, ret, hooks, added, cell>>

\* One iteration of is_free's do-while, and what spin_and_try_lock does with
\* the result.  The word reads UNLOCKED: is_free returns true and try_lock is
\* next.  Else ut_delay and ++n_spins; while n_spins < max_spins the loop goes
\* on; else is_free returns false, max_spins = n_spins + step, ++n_waits,
\* os_thread_yield, and wait() is called.
TTASEventMutex_is_free(t) ==
  /\ Running
  /\ pc[t] = "g_isfree"
  /\ IF m_lock_word = MUTEX_STATE_UNLOCKED
     THEN /\ pc' = [pc EXCEPT ![t] = "g_try"]
          /\ UNCHANGED <<n_spins, max_spins, n_waits, calls>>
     ELSE /\ n_spins[t] < MaxCount
          /\ n_spins' = [n_spins EXCEPT ![t] = @ + 1]
          /\ IF n_spins[t] + 1 < max_spins[t]
             THEN /\ calls' = [calls EXCEPT ![t] = Append(@, "ut_delay")]
                  /\ UNCHANGED <<pc, max_spins, n_waits>>
             ELSE /\ n_waits[t] < MaxWaits
                  /\ max_spins' = [max_spins EXCEPT ![t] = n_spins[t] + 1 + step[t]]
                  /\ n_waits' = [n_waits EXCEPT ![t] = @ + 1]
                  /\ calls' = [calls EXCEPT ![t] =
                                 @ \o <<"ut_delay", "os_thread_yield", "wait">>]
                  /\ pc' = [pc EXCEPT ![t] = "w_reserve"]
  /\ UNCHANGED <<shared, holds, step, wait_i, ret, hooks, added, cell>>

\* spin_and_try_lock after is_free returned true: try_lock; on success break
\* and policy.add(n_spins, n_waits); on failure continue, i.e. is_free again.
TTASEventMutex_spin_try_lock(t) ==
  /\ Running
  /\ pc[t] = "g_try"
  /\ LET r == TTASEventMutex_try_lock(m_lock_word) IN
     /\ m_lock_word' = r.word
     /\ IF r.ok
        THEN /\ holds' = [holds EXCEPT ![t] = TRUE]
             /\ added' = [added EXCEPT ![t] = Append(@, <<n_spins[t], n_waits[t]>>)]
             /\ pc' = [pc EXCEPT ![t] = "p_locked"]
             /\ UNCHANGED failed
        ELSE /\ IF is_free_assert(n_spins[t], max_spins[t]) = "none"
                THEN pc' = [pc EXCEPT ![t] = "g_isfree"] /\ UNCHANGED failed
                ELSE failed' = is_free_assert(n_spins[t], max_spins[t]) /\ UNCHANGED pc
             /\ UNCHANGED <<holds, added>>
  /\ UNCHANGED <<outside, impl, live, m_waiters, m_event, m_freed, m_locked, os_owner,
                 m_ptr, pol_owner>>
  /\ UNCHANGED <<locals, ret, hooks, calls, cell>>

\* wait(): a cell of the wait array is reserved for this thread on the
\* mutex's event; an event set from now on reaches it.
TTASEventMutex_wait_reserve(t) ==
  /\ Running
  /\ pc[t] = "w_reserve"
  /\ cell' = [cell EXCEPT ![t] = "reserved"]
  /\ wait_i' = [wait_i EXCEPT ![t] = 0]
  /\ pc' = [pc EXCEPT ![t] = "w_setw"]
  /\ UNCHANGED <<shared, holds, max_spins, step, n_spins, n_waits, ret, hooks,
                 calls, added>>

\* wait(): set_waiters().
TTASEventMutex_wait_set_waiters(t) ==
  /\ Running
  /\ pc[t] = "w_setw"
  /\ m_waiters' = set_waiters(m_waiters)
  /\ pc' = [pc EXCEPT ![t] = "w_try"]
  /\ UNCHANGED <<outside, impl, live, m_lock_word, m_event, m_freed, m_locked, os_owner,
                 m_ptr, failed, pol_owner>>
  /\ UNCHANGED <<holds, locals, ret, hooks, calls, added, cell>>

\* wait(): one of the `spin` retries of try_lock.  On success the cell is
\* freed, wait returns true, and spin_and_try_lock adds 4 to n_spins, breaks
\* and calls policy.add(n_spins, n_waits).  After the last failure the thread
\* goes on to block on the event.
TTASEventMutex_wait_retry(t) ==
  /\ Running
  /\ pc[t] = "w_try"
  /\ LET r == TTASEventMutex_try_lock(m_lock_word) IN
     /\ m_lock_word' = r.word
     /\ IF r.ok
        THEN /\ holds' = [holds EXCEPT ![t] = TRUE]
             /\ cell' = [cell EXCEPT ![t] = "none"]
             /\ n_spins' = [n_spins EXCEPT ![t] = @ + WaitSpin]
             /\ added' = [added EXCEPT ![t] =
                            Append(@, <<n_spins[t] + WaitSpin, n_waits[t]>>)]
             /\ wait_i' = [wait_i EXCEPT ![t] = 0]
             /\ pc' = [pc EXCEPT ![t] = "p_locked"]
        ELSE /\ wait_i' = [wait_i EXCEPT ![t] = @ + 1]
             /\ pc' = [pc EXCEPT ![t] =
                         IF wait_i[t] + 1 < WaitSpin THEN "w_try" ELSE "w_block"]
             /\ UNCHANGED <<holds, cell, n_spins, added>>
  /\ UNCHANGED <<outside, impl, live, m_waiters, m_event, m_freed, m_locked, os_owner,
                 m_ptr, failed, pol_owner>>
  /\ UNCHANGED <<max_spins, step, n_waits, ret, hooks, calls>>

\* wait(): the thread blocks on the event until it is set; then the cell is
\* freed, wait returns false and spin_and_try_lock calls is_free again.
TTASEventMutex_wait_event(t) ==
  /\ Running
  /\ pc[t] = "w_block"
  /\ cell[t] = "signalled"
  /\ cell' = [cell EXCEPT ![t] = "none"]
  /\ wait_i' = [wait_i EXCEPT ![t] = 0]
  /\ IF is_free_assert(n_spins[t], max_spins[t]) = "none"
     THEN pc' = [pc EXCEPT ![t] = "g_isfree"] /\ UNCHANGED failed
     ELSE failed' = is_free_assert(n_spins[t], max_spins[t]) /\ UNCHANGED pc
  /\ UNCHANGED <<outside, impl, live, m_lock_word, m_waiters, m_event, m_freed, m_locked,
                 os_owner, m_ptr, pol_owner>>
  /\ UNCHANGED <<holds, max_spins, step, n_spins, n_waits, ret, hooks, calls, added>>

\* TTASEventMutex::exit: tas_unlock().
TTASEventMutex_exit(t) ==
  /\ Running
  /\ pc[t] = "x_impl"
  /\ impl = "TTASEventMutex"
  /\ m_lock_word' = tas_unlock(m_lock_word)
  /\ holds' = [holds EXCEPT ![t] = FALSE]
  /\ pc' = [pc EXCEPT ![t] = "x_check"]
  /\ UNCHANGED <<outside, impl, live, m_waiters, m_event, m_freed, m_locked, os_owner,
                 m_ptr, failed, pol_owner>>
  /\ UNCHANGED <<locals, ret, hooks, calls, added, cell>>

\* A check of the waiter flag that calls signal() when the flag is 0.
exit_calls_signal_inverted(w) == w = 0

\* TTASEventMutex::exit: if (m_waiters != 0) signal().
exit_calls_signal(w) == w # 0

\* TTASEventMutex::exit: the read of m_waiters.
TTASEventMutex_exit_check(t) ==
  /\ Running
  /\ pc[t] = "x_check"
  /\ pc' = [pc EXCEPT ![t] = IF exit_calls_signal(m_waiters) THEN "s_clear" ELSE "idle"]
  /\ UNCHANGED <<shared, holds, locals, ret, hooks, calls, added, cell>>

\* signal(): clear_waiters().
TTASEventMutex_signal_clear(t) ==
  /\ Running
  /\ pc[t] = "s_clear"
  /\ m_waiters' = clear_waiters(m_waiters)
  /\ pc' = [pc EXCEPT ![t] = "s_set"]
  /\ UNCHANGED <<outside, impl, live, m_lock_word, m_event, m_freed, m_locked, os_owner,
                 m_ptr, failed, pol_owner>>
  /\ UNCHANGED <<holds, locals, ret, hooks, calls, added, cell>>

\* signal(): the event is set; every thread with a reserved cell is released.
TTASEventMutex_signal_set(t) ==
  /\ Running
  /\ pc[t] = "s_set"
  /\ cell' = [u \in Threads |-> IF cell[u] = "reserved" THEN "signalled" ELSE cell[u]]
  /\ pc' = [pc EXCEPT ![t] = "idle"]
  /\ UNCHANGED <<shared, holds, locals, ret, hooks, calls, added>>

(* ----------------------------- OSTrackMutex ---------------------------- *)

\* OSTrackMutex::enter: ut_ad(!m_freed), then m_mutex.enter(), which returns
\* once the OS mutex is this thread's.
OSTrackMutex_enter(t) ==
  /\ Running
  /\ pc[t] = "d_enter"
  /\ IF freed_assert
     THEN /\ failed' = "OSTrackMutex::enter: !m_freed"
          /\ UNCHANGED <<os_owner, holds, pc>>
     ELSE \E o \in os_mutex_outcomes :
            IF o = "undefined"
            THEN /\ failed' = "m_mutex.enter: not initialised"
                 /\ UNCHANGED <<os_owner, holds, pc>>
            ELSE /\ os_owner = 0
                 /\ os_owner' = t
                 /\ holds' = [holds EXCEPT ![t] = TRUE]
                 /\ pc' = [pc EXCEPT ![t] = "d_locked"]
                 /\ UNCHANGED failed
  /\ UNCHANGED <<outside, impl, live, m_lock_word, m_waiters, m_event, m_freed, m_locked,
                 m_ptr, pol_owner>>
  /\ UNCHANGED <<locals, ret, hooks, calls, added, cell>>

\* OSTrackMutex::enter after m_mutex.enter(): ut_ad(!m_locked), m_locked = true.
OSTrackMutex_enter_locked(t) ==
  /\ Running
  /\ pc[t] = "d_locked"
  /\ IF m_locked
     THEN /\ failed' = "OSTrackMutex::enter: !m_locked"
          /\ UNCHANGED <<m_locked, pc>>
     ELSE /\ m_locked' = TRUE
          /\ pc' = [pc EXCEPT ![t] = "p_locked"]
          /\ UNCHANGED failed
  /\ UNCHANGED <<outside, impl, live, m_lock_word, m_waiters, m_event, m_freed, os_owner,
                 m_ptr, pol_owner>>
  /\ UNCHANGED <<holds, locals, ret, hooks, calls, added, cell>>

\* An exit that checks m_locked and leaves it set.
OSTrackMutex_exit_keeps_locked(t) ==
  /\ Running
  /\ pc[t] = "x_impl"
  /\ impl = "OSTrackMutex"
  /\ IF ~m_locked
     THEN failed' = "OSTrackMutex::exit: m_locked" /\ UNCHANGED pc
     ELSE pc' = [pc EXCEPT ![t] = "d_unlock"] /\ UNCHANGED failed
  /\ UNCHANGED <<outside, impl, live, m_lock_word, m_waiters, m_event, m_freed, m_locked,
                 os_owner, m_ptr, pol_owner>>
  /\ UNCHANGED <<holds, locals, ret, hooks, calls, added, cell>>

\* OSTrackMutex::exit: ut_ad(m_locked), m_locked = false, ut_ad(!m_freed).
OSTrackMutex_exit(t) ==
  /\ Running
  /\ pc[t] = "x_impl"
  /\ impl = "OSTrackMutex"
  /\ IF ~m_locked
     THEN /\ failed' = "OSTrackMutex::exit: m_locked"
          /\ UNCHANGED <<m_locked, pc>>
     ELSE /\ m_locked' = FALSE
          /\ IF freed_assert
             THEN failed' = "OSTrackMutex::exit: !m_freed" /\ UNCHANGED pc
             ELSE pc' = [pc EXCEPT ![t] = "d_unlock"] /\ UNCHANGED failed
  /\ UNCHANGED <<outside, impl, live, m_lock_word, m_waiters, m_event, m_freed, os_owner,
                 m_ptr, pol_owner>>
  /\ UNCHANGED <<holds, locals, ret, hooks, calls, added, cell>>

\* OSTrackMutex::exit: m_mutex.exit().
OSTrackMutex_exit_unlock(t) ==
  /\ Running
  /\ pc[t] = "d_unlock"
  /\ os_owner' = 0
  /\ holds' = [holds EXCEPT ![t] = FALSE]
  /\ pc' = [pc EXCEPT ![t] = "idle"]
  /\ UNCHANGED <<outside, impl, live, m_lock_word, m_waiters, m_event, m_freed, m_locked,
                 m_ptr, failed, pol_owner>>
  /\ UNCHANGED <<locals, ret, hooks, calls, added, cell>>

\* OSTrackMutex::try_lock: ut_ad(!m_freed), then m_mutex.try_lock().
OSTrackMutex_try_lock(t) ==
  /\ Running
  /\ pc[t] = "t_try"
  /\ impl = "OSTrackMutex"
  /\ IF freed_assert
     THEN /\ failed' = "OSTrackMutex::try_lock: !m_freed"
          /\ UNCHANGED <<os_owner, holds, pc, ret>>
     ELSE \E o \in os_mutex_outcomes :
            IF o = "undefined"
            THEN /\ failed' = "m_mutex.try_lock: not initialised"
                 /\ UNCHANGED <<os_owner, holds, pc, ret>>
            ELSE /\ UNCHANGED failed
                 /\ IF os_owner = 0
                    THEN /\ os_owner' = t
                         /\ holds' = [holds EXCEPT ![t] = TRUE]
                         /\ pc' = [pc EXCEPT ![t] = "d_tlocked"]
                         /\ UNCHANGED ret
                    ELSE /\ ret' = [ret EXCEPT ![t] = 1]
                         /\ pc' = [pc EXCEPT ![t] = "t_ret"]
                         /\ UNCHANGED <<os_owner, holds>>
  /\ UNCHANGED <<outside, impl, live, m_lock_word, m_waiters, m_event, m_freed, m_locked,
                 m_ptr, pol_owner>>
  /\ UNCHANGED <<locals, hooks, calls, added, cell>>

\* OSTrackMutex::try_lock when locked: ut_ad(!m_locked), m_locked = locked.
OSTrackMutex_try_lock_locked(t) ==
  /\ Running
  /\ pc[t] = "d_tlocked"
  /\ IF m_locked
     THEN /\ failed' = "OSTrackMutex::try_lock: !m_locked"
          /\ UNCHANGED <<m_locked, pc, ret>>
     ELSE /\ m_locked' = TRUE
          /\ ret' = [ret EXCEPT ![t] = 0]
          /\ pc' = [pc EXCEPT ![t] = "t_ret"]
          /\ UNCHANGED failed
  /\ UNCHANGED <<outside, impl, live, m_lock_word, m_waiters, m_event, m_freed, os_owner,
                 m_ptr, pol_owner>>
  /\ UNCHANGED <<holds, locals, hooks, calls, added, cell>>

(* ---------------------- PolicyMutex::exit, trylock --------------------- *)

\* An exit that goes to m_impl.exit without calling policy().release.
PolicyMutex_exit_no_release(t) ==
  /\ Running
  /\ hooks' = [hooks EXCEPT ![t] = pfs_exit(m_ptr)]
  /\ ret' = [ret EXCEPT ![t] = -1]
  /\ pc' = [pc EXCEPT ![t] = "x_impl"]
  /\ UNCHANGED <<shared, holds, locals, calls, added, cell>>

\* PolicyMutex::exit up to the call of m_impl.exit: pfs_exit, policy().release.
PolicyMutex_exit(t) ==
  /\ Running
  /\ hooks' = [hooks EXCEPT ![t] = pfs_exit(m_ptr) \o <<"policy.release">>]
  /\ pol_owner' = 0
  /\ ret' = [ret EXCEPT ![t] = -1]
  /\ pc' = [pc EXCEPT ![t] = "x_impl"]
  /\ UNCHANGED <<outside, impl, live, m_lock_word, m_waiters, m_event, m_freed, m_locked,
                 os_owner, m_ptr, failed>>
  /\ UNCHANGED <<holds, locals, calls, added, cell>>

\* PolicyMutex::trylock up to the call of m_impl.try_lock: pfs_begin_trylock.
PolicyMutex_trylock(t) ==
  /\ Running
  /\ hooks' = [hooks EXCEPT ![t] = pfs_begin_trylock(m_ptr)]
  /\ ret' = [ret EXCEPT ![t] = -1]
  /\ pc' = [pc EXCEPT ![t] = "t_try"]
  /\ UNCHANGED <<shared, holds, locals, calls, added, cell>>

\* m_impl.try_lock() of the three TTAS mutexes.
impl_try_lock(w) ==
  CASE impl = "TTASMutex" -> TTASMutex_try_lock(w)
    [] impl = "TTASFutexMutex" -> TTASFutexMutex_try_lock(w)
    [] impl = "TTASEventMutex" -> TTASEventMutex_try_lock(w)

\* PolicyMutex::trylock: int ret = m_impl.try_lock() ? 0 : 1.
PolicyMutex_trylock_impl(t) ==
  /\ Running
  /\ pc[t] = "t_try"
  /\ impl # "OSTrackMutex"
  /\ LET r == impl_try_lock(m_lock_word) IN
     /\ m_lock_word' = r.word
     /\ ret' = [ret EXCEPT ![t] = IF r.ok THEN 0 ELSE 1]
     /\ holds' = [holds EXCEPT ![t] = @ \/ r.ok]
  /\ pc' = [pc EXCEPT ![t] = "t_ret"]
  /\ UNCHANGED <<outside, impl, live, m_waiters, m_event, m_freed, m_locked, os_owner,
                 m_ptr, failed, pol_owner>>
  /\ UNCHANGED <<locals, hooks, calls, added, cell>>

\* A trylock that calls both policy hooks whatever try_lock returned.
trylock_hooks_always(r) == <<"policy.enter", "policy.locked">>

\* The policy hooks PolicyMutex::trylock calls for a given ret.
trylock_hooks(r) == IF r = 0 THEN <<"policy.enter", "policy.locked">> ELSE <<>>

\* PolicyMutex::trylock after m_impl.try_lock: the hooks if ret == 0, then
\* pfs_end(locker, 0), then return ret.
PolicyMutex_trylock_ret(t) ==
  /\ Running
  /\ pc[t] = "t_ret"
  /\ hooks' = [hooks EXCEPT ![t] = @ \o trylock_hooks(ret[t]) \o pfs_end(m_ptr, 0)]
  /\ pol_owner' = IF ret[t] = 0 THEN t ELSE pol_owner
  /\ pc' = [pc EXCEPT ![t] = IF holds[t] THEN "cs" ELSE "idle"]
  /\ UNCHANGED <<outside, impl, live, m_lock_word, m_waiters, m_event, m_freed, m_locked,
                 os_owner, m_ptr, failed>>
  /\ UNCHANGED <<holds, locals, ret, calls, added, cell>>

(* ------------------------------ predicates ---------------------------- *)

\* The threads between their acquiring step and their releasing write.
Holders == {t \in Threads : holds[t]}

\* Thread t is inside m_impl.enter and has not acquired the lock yet.
InEnter(t) ==
  pc[t] \in {"d_enter", "e_try", "f_spin", "f_swap", "f_wait", "f_parked",
             "g_enter", "g_isfree", "g_try", "w_reserve", "w_setw", "w_try",
             "w_block"}

\* Thread t is inside TTASFutexMutex::enter and is not asleep in futex_wait.
FutexRunnable(t) == pc[t] \in {"f_spin", "f_swap", "f_wait"}

\* Thread t is blocked on the event: its cell is reserved and no set reached it.
Blocked(t) == pc[t] = "w_block" /\ cell[t] = "reserved"

\* A signal() called by an exiting thread has not set the event yet.
SignalInFlight == \E u \in Threads : pc[u] \in {"s_clear", "s_set"}

\* An exiting thread has released the lock word and has not finished exit.
ExitInFlight == \E u \in Threads : pc[u] \in {"x_check", "s_clear", "s_set"}

(* ------------------------------ the threads ---------------------------- *)

\* A thread that does not hold the mutex calls enter.
CallEnter(t) ==
  live /\ pc[t] = "idle" /\ \E ms \in 0 .. MaxSpinsArg : PolicyMutex_enter(t, ms)

\* A thread calls trylock, whether or not it holds the mutex.
CallTryLock(t) ==
  live /\ pc[t] \in {"idle", "cs"} /\ PolicyMutex_trylock(t)

\* The holder calls exit.
CallExit(t) ==
  pc[t] = "cs" /\ PolicyMutex_exit(t)

\* The steps of a call in progress.
CallStep(t) ==
  \/ PolicyMutex_enter_locked(t)
  \/ TTASMutex_enter(t)
  \/ TTASMutex_exit(t)
  \/ TTASFutexMutex_enter_spin(t)
  \/ TTASFutexMutex_enter_swap(t)
  \/ TTASFutexMutex_enter_futex_wait(t)
  \/ TTASFutexMutex_exit(t)
  \/ TTASFutexMutex_exit_wake(t)
  \/ TTASEventMutex_enter(t)
  \/ TTASEventMutex_is_free(t)
  \/ TTASEventMutex_spin_try_lock(t)
  \/ TTASEventMutex_wait_reserve(t)
  \/ TTASEventMutex_wait_set_waiters(t)
  \/ TTASEventMutex_wait_retry(t)
  \/ TTASEventMutex_wait_event(t)
  \/ TTASEventMutex_exit(t)
  \/ TTASEventMutex_exit_check(t)
  \/ TTASEventMutex_signal_clear(t)
  \/ TTASEventMutex_signal_set(t)
  \/ OSTrackMutex_enter(t)
  \/ OSTrackMutex_enter_locked(t)
  \/ OSTrackMutex_exit(t)
  \/ OSTrackMutex_exit_unlock(t)

\* The steps of a trylock in progress.
TryLockStep(t) ==
  \/ PolicyMutex_trylock_impl(t)
  \/ OSTrackMutex_try_lock(t)
  \/ OSTrackMutex_try_lock_locked(t)
  \/ PolicyMutex_trylock_ret(t)

Next ==
  \/ DoInit
  \/ DoDestroy
  \/ \E t \in Threads : CallEnter(t)
  \/ \E t \in Threads : CallTryLock(t)
  \/ \E t \in Threads : CallExit(t)
  \/ \E t \in Threads : CallStep(t)
  \/ \E t \in Threads : TryLockStep(t)
  \/ \E t \in Threads : TTASFutexMutex_enter_spurious(t)

Spec == Init /\ [][Next]_vars

(* ------------------- threads that loop enter and exit ------------------ *)

\* An initialised mutex that no thread has used yet.
FairInit ==
  /\ impl \in Impls
  /\ live = TRUE
  /\ m_lock_word = MUTEX_STATE_UNLOCKED
  /\ m_waiters = 0
  /\ m_event = (IF impl = "TTASEventMutex" THEN 1 ELSE 0)
  /\ m_freed = (impl # "OSTrackMutex")
  /\ m_locked = FALSE
  /\ os_owner = 0
  /\ m_ptr = 0
  /\ failed = "none"
  /\ pol_owner = 0
  /\ ThreadsIdle
  /\ innodb_calling_exit = FALSE
  /\ RndIdle

FairNext ==
  \/ \E t \in Threads : CallEnter(t)
  \/ \E t \in Threads : CallExit(t)
  \/ \E t \in Threads : CallStep(t)
  \/ \E t \in Threads : TTASFutexMutex_enter_spurious(t)

\* What the scheduler and the callers guarantee: a thread that can take the
\* next step of its call takes it, and a holder calls exit.  Nothing makes a
\* thread call enter, and nothing makes futex_wait return without a wake.
Progress(t) == CallStep(t) \/ CallExit(t)

FairSpec ==
  FairInit /\ [][FairNext]_vars /\ \A t \in Threads : WF_vars(Progress(t))

(* ------------------------- callers that misuse ------------------------- *)

\* A thread calls exit on the initialised mutex while no thread holds it.
MisuseExit(t) ==
  live /\ pc[t] = "idle" /\ Holders = {} /\ PolicyMutex_exit(t)

MisuseNext ==
  \/ Next
  \/ \E t \in Threads : MisuseExit(t)

MisuseSpec == Init /\ [][MisuseNext]_vars

(* ------------------- callers that misuse the lifecycle ----------------- *)

\* A constructed mutex; for OSTrackMutex, which reads the flag, the server may
\* be shutting down.
LifecycleInit ==
  /\ impl \in Impls
  /\ Constructed
  /\ innodb_calling_exit \in (IF impl = "OSTrackMutex" THEN BOOLEAN ELSE {FALSE})
  /\ RndIdle

NoCallInProgress == \A t \in Threads : pc[t] \in {"idle", "cs"}

\* enter on a mutex that is not initialised (never, or destroyed since).
UninitEnter(t) ==
  /\ ~live
  /\ \A u \in Threads : pc[u] = "idle"
  /\ \E ms \in 0 .. MaxSpinsArg : PolicyMutex_enter(t, ms)

\* trylock on a mutex that is not initialised.
UninitTryLock(t) ==
  /\ ~live
  /\ \A u \in Threads : pc[u] = "idle"
  /\ PolicyMutex_trylock(t)

\* init of a mutex that is initialised already.
SecondInit == live /\ NoCallInProgress /\ \E p \in {0, 1} : PolicyMutex_init(p)

\* destroy of a mutex that is not initialised, or that a thread holds.
BadDestroy ==
  /\ NoCallInProgress
  /\ ~live \/ \E t \in Threads : pc[t] = "cs"
  /\ PolicyMutex_destroy

LifecycleNext ==
  \/ Next
  \/ \E t \in Threads : UninitEnter(t)
  \/ \E t \in Threads : UninitTryLock(t)
  \/ SecondInit
  \/ BadDestroy

LifecycleSpec == LifecycleInit /\ [][LifecycleNext]_vars

(* ------------------ callers with a wider spin budget ------------------- *)

\* A thread that does not hold the mutex calls enter with a budget of up to
\* MaxSpinsWide rounds.
CallEnterWide(t) ==
  live /\ pc[t] = "idle" /\ \E ms \in 0 .. MaxSpinsWide : PolicyMutex_enter(t, ms)

BudgetNext ==
  \/ \E t \in Threads : CallEnterWide(t)
  \/ \E t \in Threads : CallExit(t)
  \/ \E t \in Threads : CallStep(t)
  \/ \E t \in Threads : TTASFutexMutex_enter_spurious(t)

BudgetSpec == FairInit /\ [][BudgetNext]_vars

(* --------------------------- the generators ---------------------------- *)

mutex_vars == <<impl, live, m_lock_word, m_waiters, m_event, m_freed, m_locked,
                os_owner, m_ptr, failed, pol_owner, pc, holds, locals, ret,
                hooks, calls, added, cell>>

\* Two generators after my_rnd_init with the same pair of seeds, in a build
\* whose unsigned long has 32 or 64 bits.  The mutex is left as constructed.
RndInit ==
  /\ impl = "TTASMutex"
  /\ Constructed
  /\ innodb_calling_exit = FALSE
  /\ ulong_bits \in {32, 64}
  /\ \E seed1, seed2 \in SeedInputs(ulong_bits) :
       rand_st = [g \in Generators |-> my_rnd_init(seed1, seed2)]
  /\ rnd_calls = [g \in Generators |-> 0]
  /\ rnd_ret = [g \in Generators |-> 0]

\* A call my_rnd(&rand_st[g]); the value returned is rnd_ret / max_value_dbl.
my_rnd_call(g) ==
  /\ rnd_calls[g] < MaxRndCalls
  /\ rand_st' = [rand_st EXCEPT ![g] = my_rnd(ulong_bits, @)]
  /\ rnd_ret' = [rnd_ret EXCEPT ![g] = rand_st'[g].seed1]
  /\ rnd_calls' = [rnd_calls EXCEPT ![g] = @ + 1]
  /\ UNCHANGED <<mutex_vars, innodb_calling_exit, ulong_bits>>

RndNext == \E g \in Generators : my_rnd_call(g)

RndSpec == RndInit /\ [][RndNext]_vars

(* -------------------------------- claims ------------------------------- *)

\* C1: mutual exclusion for TTASMutex, TTASFutexMutex and TTASEventMutex: at
\* most one thread is between its acquiring step and the releasing write of
\* its exit, and when the lock word is UNLOCKED no thread is.
C1_MutualExclusion ==
  impl \in {"TTASMutex", "TTASFutexMutex", "TTASEventMutex"} =>
    /\ Cardinality(Holders) <= 1
    /\ (m_lock_word = MUTEX_STATE_UNLOCKED => Holders = {})

\* C1 witness: a thread is in its critical section while two others are
\* trying to take the word, one of them in a retry of wait().
C1_Witness ==
  \E t, u, v \in Threads :
    /\ pc[t] = "cs" /\ holds[t]
    /\ pc[u] = "w_try" /\ wait_i[u] > 0
    /\ pc[v] = "t_try"

\* C2: no lost wake-up in TTASFutexMutex: when a thread sleeps in futex_wait,
\* some thread holds the lock, or an exiting thread still has its futex_wake
\* to issue, or another thread inside enter is runnable.
C2_NoLostWakeup ==
  (impl = "TTASFutexMutex" /\ Parked # {}) =>
    \/ Holders # {}
    \/ \E u \in Threads : pc[u] = "x_wake"
    \/ \E u \in Threads : FutexRunnable(u)

\* C2 witness: two threads sleep, the holder has swapped UNLOCKED in and its
\* futex_wake is still to come.
C2_Witness ==
  /\ impl = "TTASFutexMutex"
  /\ Cardinality(Parked) = 2
  /\ \E u \in Threads : pc[u] = "x_wake"
  /\ Holders = {}

C5_DeadlockFree ==
  impl \in {"TTASMutex", "TTASFutexMutex", "TTASEventMutex"} =>
    ((\E t \in Threads : InEnter(t)) ~> (\E u \in Threads : pc[u] = "p_locked"))

\* C5 witness: two threads are asleep inside enter, on the event, and the
\* third has released the lock and cleared the flag but not yet set the event.
C5_Witness ==
  /\ Holders = {}
  /\ Cardinality({t \in Threads : Blocked(t)}) = 2
  /\ \E u \in Threads : pc[u] = "s_set"

\* C6 as stated, for the three TTAS mutexes: every thread that calls enter
\* eventually acquires the lock.
C6_EveryThreadAcquires ==
  impl \in {"TTASMutex", "TTASFutexMutex", "TTASEventMutex"} =>
    \A t \in Threads : (<>InEnter(t)) => <>holds[t]

\* C6: a call to enter, a thread's first included, returns unless other
\* threads keep acquiring the lock again and again for ever: no thread stays
\* inside enter for ever while, from some point on, no other thread holds.
C6_AcquiresUnlessOvertaken ==
  \A t \in Threads :
    []<>(~InEnter(t) \/ \E u \in Threads \ {t} : holds[u])

\* C6 witness: a thread sleeps in futex_wait while another thread, which took
\* the freed word by the compare-and-swap of the spin phase, holds the lock.
C6_Witness ==
  /\ impl = "TTASFutexMutex"
  /\ m_lock_word = MUTEX_STATE_LOCKED
  /\ \E t, u \in Threads : pc[t] = "f_parked" /\ pc[u] = "cs" /\ holds[u]

\* Whether the mutex can be taken at this instant.
LockFree ==
  IF impl = "OSTrackMutex" THEN os_owner = 0
  ELSE m_lock_word = MUTEX_STATE_UNLOCKED

\* C7: trylock never blocks (every step of it is enabled); its atomic step
\* succeeds exactly when the word is UNLOCKED, and ret is 0 on success and 1
\* otherwise; a failing trylock leaves the lock word, the waiter flag and the
\* OS mutex as they were; and when no thread holds the mutex (as after enter
\* followed by exit) the word is UNLOCKED, so a trylock returns 0.
C7_TryLock ==
  /\ [](\A t \in Threads :
          (Running /\ pc[t] \in {"t_try", "d_tlocked", "t_ret"})
            => ENABLED TryLockStep(t))
  /\ [][\A t \in Threads :
          (pc[t] = "t_try" /\ pc'[t] # "t_try") =>
            /\ holds'[t] = (holds[t] \/ LockFree)
            /\ (pc'[t] = "t_ret" => ret'[t] = (IF LockFree THEN 0 ELSE 1))
            /\ (~LockFree => UNCHANGED <<m_lock_word, m_waiters, os_owner>>)]_vars
  /\ [][\A t \in Threads :
          (pc[t] = "d_tlocked" /\ pc'[t] # "d_tlocked") => ret'[t] = 0]_vars
  /\ [](Holders = {} => LockFree)

\* C7 witness: the holder of a TTASFutexMutex whose word is WAITERS has called
\* trylock, which failed with 1 and left the word WAITERS.
C7_Witness ==
  /\ impl = "TTASFutexMutex"
  /\ m_lock_word = MUTEX_STATE_WAITERS
  /\ \E t \in Threads : pc[t] = "t_ret" /\ holds[t] /\ ret[t] = 1

IsPolicyHook(e) == e \in {"policy.enter", "policy.locked", "policy.release"}

\* The policy hooks among the calls thread t's current facade call has made.
PolicyHooks(t) == SelectSeq(hooks[t], IsPolicyHook)

\* C8: until try_lock has returned a trylock has called no policy hook; a
\* trylock that returned 0 took the lock and called policy.enter and then
\* policy.locked, while holding it; a trylock that returned 1 called none.
C8_TryLockHooks ==
  \A t \in Threads :
    /\ pc[t] \in {"t_try", "d_tlocked", "t_ret"} => PolicyHooks(t) = <<>>
    /\ pc[t] = "t_ret" => (ret[t] \in {0, 1} /\ (ret[t] = 0 => holds[t]))
    /\ (pc[t] \in {"idle", "cs"} /\ ret[t] = 0) =>
         (pc[t] = "cs" /\ holds[t] /\ pol_owner = t
            /\ PolicyHooks(t) = <<"policy.enter", "policy.locked">>)
    /\ (pc[t] \in {"idle", "cs"} /\ ret[t] = 1) => PolicyHooks(t) = <<>>
    /\ (pc[t] = "idle" /\ ret[t] # -1) => ret[t] = 1

\* C8 witness: with instrumentation on, one thread's trylock has returned 0
\* and another thread's trylock has returned 1.
C8_Witness ==
  /\ m_ptr # 0
  /\ \E t, u \in Threads :
       /\ pc[t] = "cs" /\ ret[t] = 0
       /\ pc[u] = "idle" /\ ret[u] = 1 /\ hooks[u] # <<>>

IsLocked(e) == e = "policy.locked"

IsRelease(e) == e = "policy.release"

\* Thread t's step calls policy.locked / policy.release.
LockedEvent(t) ==
  Len(SelectSeq(hooks'[t], IsLocked)) > Len(SelectSeq(hooks[t], IsLocked))

ReleaseEvent(t) ==
  Len(SelectSeq(hooks'[t], IsRelease)) > Len(SelectSeq(hooks[t], IsRelease))

\* C9: while m_impl.enter runs, policy.enter is the one policy hook called and
\* policy.locked is called once it has returned with the lock; while
\* m_impl.exit runs, policy.release has been called; policy.locked is called
\* only by a holder when the last event was a release (or there was none), and
\* policy.release only by the thread of the last locked, which holds the lock.
C9_HookOrder ==
  /\ [](\A t \in Threads :
          /\ (InEnter(t) \/ pc[t] \in {"d_locked", "p_locked"})
               => PolicyHooks(t) = <<"policy.enter">>
          /\ InEnter(t) => ~holds[t]
          /\ pc[t] = "p_locked" => holds[t]
          /\ (pc[t] = "cs" /\ ret[t] = -1)
               => PolicyHooks(t) = <<"policy.enter", "policy.locked">>
          /\ pc[t] \in {"x_impl", "x_wake", "x_check", "s_clear", "s_set",
                        "d_unlock"}
               => PolicyHooks(t) = <<"policy.release">>
          /\ pc[t] = "x_impl" => holds[t])
  /\ [][\A t \in Threads :
          /\ LockedEvent(t) => (pol_owner = 0 /\ holds'[t] /\ pol_owner' = t)
          /\ ReleaseEvent(t) => (pol_owner = t /\ holds[t] /\ pol_owner' = 0)]_vars

\* C9 witness: a thread has returned from an enter that had to wait on the
\* event, after another thread's exit released the lock and signalled.
C9_Witness ==
  \E t, u \in Threads :
    /\ pc[t] = "p_locked" /\ n_waits[t] > 0 /\ pol_owner = 0
    /\ pc[u] = "idle" /\ PolicyHooks(u) = <<"policy.release">>

\* C10 as stated: an exit called while no thread holds the mutex never gets
\* past its first statement: the debug assertion stops it.
C10_ExitNotHeldAsserts ==
  [][\A t \in Threads :
       (pc[t] = "x_impl" /\ ~holds[t]) => pc'[t] = "x_impl"]_vars

\* C15: every my_rnd call, in a 32-bit and in a 64-bit build, takes the state
\* to seed1' = (seed1*3 + seed2) mod max_value and seed2' = (seed1' + seed2 +
\* 33) mod max_value computed without wrap-around, and neither sum exceeds
\* 2^32 - 1 (its high limb, in units of 2^30, stays below 4).
C15_NoWrap ==
  [][\A g \in Generators :
       rnd_calls'[g] # rnd_calls[g] =>
         LET s1 == Limbs(0, rand_st[g].seed1)
             s2 == Limbs(0, rand_st[g].seed2)
             sum1 == Plus(Plus(Plus(s1, s1), s1), s2)
             new1 == mod_max_value(sum1)
             sum2 == Plus(Plus(Limbs(0, new1), s2), Limbs(0, 33))
         IN  /\ sum1.hi < 4
             /\ sum2.hi < 4
             /\ rand_st'[g] = [seed1 |-> new1, seed2 |-> mod_max_value(sum2)]]_vars

\* C15 witness: a 32-bit build; one generator still holds the largest seeds
\* (seed1*3 + seed2 = 2^32 - 8) and the other has made one call from them,
\* which left seed1 = max_value - 4.
C15_Witness ==
  /\ ulong_bits = 32
  /\ \E g, h \in Generators :
       /\ rnd_calls[g] = 0
       /\ rand_st[g] = [seed1 |-> max_value - 1, seed2 |-> max_value - 1]
       /\ rnd_calls[h] = 1
       /\ rand_st[h].seed1 = max_value - 4

C11_UninitialisedUseAsserts ==
  [][\A t \in Threads :
       (~innodb_calling_exit /\ ~live
          /\ pc[t] \in {"d_enter", "e_try", "f_spin", "f_swap", "g_enter", "t_try"})
         => pc'[t] = pc[t]]_vars

\* An assertion of OSTrackMutex::init or ::destroy, or of pfs_add before init.
LifecycleAsserts ==
  {"PolicyMutex::pfs_add: m_ptr == 0", "OSTrackMutex::init: m_freed",
   "OSTrackMutex::init: !m_locked", "OSTrackMutex::destroy: !m_locked",
   "OSTrackMutex::destroy: !m_freed"}

\* C13 as stated: every destroy of an OSTrackMutex that is freed or locked
\* triggers an assertion.
C13_DestroyRequires ==
  [][(impl = "OSTrackMutex" /\ PolicyMutex_destroy /\ (m_freed \/ m_locked))
       => failed' \in LifecycleAsserts]_vars

\* C13: OSTrackMutex lifecycle: an init with freed && !locked (and no PSI handle
\* left) leaves !freed without an assertion, every other init triggers one; a
\* destroy while locked triggers one; a destroy of a freed mutex triggers one
\* unless innodb_calling_exit is set; a destroy with !freed && !locked leaves
\* freed without an assertion.
C13_LifecycleUnlessShutdown ==
  [][impl = "OSTrackMutex" =>
       /\ (\E p \in {0, 1} : PolicyMutex_init(p)) =>
            /\ (~m_freed \/ m_locked) => failed' \in LifecycleAsserts
            /\ (m_freed /\ ~m_locked /\ m_ptr = 0) => (failed' = "none" /\ ~m_freed')
       /\ PolicyMutex_destroy =>
            /\ m_locked => failed' = "OSTrackMutex::destroy: !m_locked"
            /\ (~m_locked /\ m_freed /\ ~innodb_calling_exit)
                 => failed' = "OSTrackMutex::destroy: !m_freed"
            /\ (~m_locked /\ ~m_freed) => (failed' = "none" /\ m_freed')]_vars

\* C13 witness: a destroy while a thread holds the OSTrackMutex has triggered
\* the !m_locked assertion.
C13_Witness ==
  /\ impl = "OSTrackMutex"
  /\ failed = "OSTrackMutex::destroy: !m_locked"
  /\ m_locked /\ ~m_freed
  /\ \E t \in Threads : pc[t] = "cs"

(* ------------------------------ C12 ------------------------------------ *)

\* The places of OSTrackMutex::enter, ::try_lock and ::exit that read or write
\* m_locked.
TouchesLocked(t) == pc[t] \in {"d_locked", "d_tlocked", "x_impl"}

\* A thread between its update of m_locked after acquiring and its exit's
\* clearing of m_locked.
TrackedHolder(t) ==
  os_owner = t /\ pc[t] \notin {"d_locked", "d_tlocked", "d_unlock"}

\* C12: with threads that call enter, try_lock and exit concurrently on an
\* OSTrackMutex, m_locked is read and written only by the thread that holds the
\* OS mutex, it changes only in a step of that thread, the assertions !m_locked
\* after acquiring and m_locked in exit never fail, and m_locked is true exactly
\* while some thread is between its update after acquiring and its exit.
C12_TrackedUnderOsMutex ==
  /\ [](impl = "OSTrackMutex" =>
          /\ \A t \in Threads : TouchesLocked(t) => os_owner = t
          /\ m_locked <=> \E t \in Threads : TrackedHolder(t)
          /\ failed \notin {"OSTrackMutex::enter: !m_locked",
                            "OSTrackMutex::try_lock: !m_locked",
                            "OSTrackMutex::exit: m_locked"})
  /\ [][(impl = "OSTrackMutex" /\ m_locked' # m_locked)
          => (os_owner \in Threads /\ TouchesLocked(os_owner)
              /\ pc'[os_owner] # pc[os_owner])]_vars

\* C12's case: one thread in its critical section with m_locked set, a second
\* blocked in m_mutex.enter(), the third returning from a failed try_lock.
C12_Witness ==
  /\ impl = "OSTrackMutex"
  /\ m_locked
  /\ \E t, u, v \in Threads :
       /\ pc[t] = "cs" /\ os_owner = t
       /\ pc[u] = "d_enter"
       /\ pc[v] = "t_ret" /\ ret[v] = 1


(* ------------------------------ C14 ------------------------------------ *)

\* The number of calls of primitive c that thread t made in its current enter.
CallCount(t, c) == Len(SelectSeq(calls[t], LAMBDA x : x = c))

\* Thread t is inside a call and past the statements of m_impl.enter that may
\* wait: in PolicyMutex::enter after m_impl.enter, in trylock, or in exit.
InNonBlockingCall(t) == pc[t] \notin {"idle", "cs"} /\ ~InEnter(t)

\* C14: a thread suspends only inside enter and only after its spin budget is
\* exhausted.  TTASFutexMutex::enter is at futex_wait only after max_spins
\* failed try_lock calls, each followed by one delay; TTASEventMutex goes from
\* is_free to wait() only with the lock word not UNLOCKED and n_spins at or
\* above the budget is_free was given; TTASMutex::enter never calls futex_wait
\* or wait(); and a thread in try_lock, in exit or past m_impl.enter always has
\* a step to take.
C14_SuspendOnlyAfterSpinning ==
  /\ [](\A t \in Threads :
          /\ pc[t] \in {"f_wait", "f_parked"}
               => /\ n_spins[t] = max_spins[t]
                  /\ CallCount(t, "ut_delay") = max_spins[t]
          /\ CallCount(t, "futex_wait") > 0 => impl = "TTASFutexMutex"
          /\ CallCount(t, "wait") > 0 => impl = "TTASEventMutex"
          /\ (failed = "none" /\ InNonBlockingCall(t))
               => ENABLED (CallStep(t) \/ TryLockStep(t)))
  /\ [][\A t \in Threads :
          (pc[t] = "g_isfree" /\ pc'[t] = "w_reserve")
            => /\ m_lock_word # MUTEX_STATE_UNLOCKED
               /\ n_spins'[t] >= max_spins[t]
               /\ CallCount(t, "wait")' = CallCount(t, "wait") + 1]_vars

\* C14's case: a thread asleep in futex_wait after its one spin round failed.
C14_Witness ==
  /\ impl = "TTASFutexMutex"
  /\ \E t \in Threads :
       /\ pc[t] = "f_parked"
       /\ max_spins[t] = 1
       /\ calls[t] = <<"ut_delay", "futex_wait">>

(* ------------------------------ C17 ------------------------------------ *)

\* Thread t has returned from m_impl.enter and not yet from PolicyMutex::enter:
\* the locals of m_impl.enter and what it recorded are still in place.
Entered(t) == pc[t] = "p_locked"

\* C17: TTASFutexMutex::enter calls policy.add once, when it has the lock and
\* not before: add(i, 0) when the (i+1)-th try_lock of the spin phase
\* succeeded, after i < max_spins failures, or add(max_spins, w) after
\* max_spins failures, w being the number of futex_wait calls made; max_spins
\* never changes during the call; and with max_spins = 0 the call starts with
\* the swap to WAITERS.
C17_FutexAddOnce ==
  /\ [](impl = "TTASFutexMutex" =>
          \A t \in Threads :
            /\ InEnter(t) => added[t] = <<>>
            /\ pc[t] = "f_spin" => n_spins[t] < max_spins[t]
            /\ Entered(t) =>
                 /\ Len(added[t]) = 1
                 /\ CallCount(t, "ut_delay") = added[t][1][1]
                 /\ \/ /\ added[t][1][1] < max_spins[t]
                       /\ added[t][1][2] = 0
                       /\ CallCount(t, "futex_wait") = 0
                    \/ /\ added[t][1][1] = max_spins[t]
                       /\ added[t][1][2] = CallCount(t, "futex_wait"))
  /\ [][impl = "TTASFutexMutex" =>
          \A t \in Threads :
            /\ InEnter(t) => max_spins'[t] = max_spins[t]
            /\ (pc[t] = "idle" /\ pc'[t] # "idle" /\ max_spins'[t] = 0)
                 => pc'[t] = "f_swap"]_vars

\* C17's case: a call with max_spins = 2 that went to sleep once and then got
\* the lock in the park phase, so add(2, 1), while another thread's call with
\* max_spins = 2 has failed one try_lock and is about to make its second.
C17_Witness ==
  /\ impl = "TTASFutexMutex"
  /\ \E t \in Threads :
       /\ pc[t] = "p_locked" /\ max_spins[t] = 2 /\ added[t] = <<<<2, 1>>>>
  /\ \E u \in Threads :
       /\ pc[u] = "f_spin" /\ max_spins[u] = 2 /\ n_spins[u] = 1

(* ------------------------------ C18 ------------------------------------ *)

\* The yields TTASMutex::enter has made after n failed attempts with the
\* budget growing by step from step: one at every multiple of step.
YieldsAfter(n, st) == IF st = 0 THEN 0 ELSE n \div st

\* C18: in TTASMutex::enter, n_spins counts the failed try_lock calls, each is
\* followed by one delay, a yield is made exactly by the failure that brings
\* n_spins to the current max_spins, max_spins then grows by step (the
\* max_spins of the call), a success records add(n_spins, 0), once, and the
\* call makes no futex_wait and no wait().
C18_SpinYieldGrow ==
  /\ [](impl = "TTASMutex" =>
          \A t \in Threads :
            /\ (pc[t] = "e_try" \/ Entered(t)) =>
                 /\ CallCount(t, "ut_delay") = n_spins[t]
                 /\ CallCount(t, "os_thread_yield") = YieldsAfter(n_spins[t], step[t])
                 /\ max_spins[t] = step[t] * (1 + YieldsAfter(n_spins[t], step[t]))
                 /\ Len(calls[t]) = CallCount(t, "ut_delay") + CallCount(t, "os_thread_yield")
            /\ pc[t] = "e_try" => added[t] = <<>>
            /\ Entered(t) => added[t] = <<<<n_spins[t], 0>>>>)
  /\ [][impl = "TTASMutex" =>
          \A t \in Threads :
            (pc[t] = "e_try" /\ n_spins'[t] # n_spins[t]) =>
              /\ n_spins'[t] = n_spins[t] + 1
              /\ CallCount(t, "ut_delay")' = CallCount(t, "ut_delay") + 1
              /\ IF n_spins'[t] = max_spins[t]
                 THEN /\ CallCount(t, "os_thread_yield")' = CallCount(t, "os_thread_yield") + 1
                      /\ max_spins'[t] = max_spins[t] + step[t]
                 ELSE /\ CallCount(t, "os_thread_yield")' = CallCount(t, "os_thread_yield")
                      /\ max_spins'[t] = max_spins[t]]_vars

\* C18's case: a call with max_spins = 2 that failed twice, delayed twice,
\* yielded at the second failure, grew its budget to 4, and then got the lock.
C18_Witness ==
  /\ impl = "TTASMutex"
  /\ \E t \in Threads :
       /\ pc[t] = "p_locked"
       /\ step[t] = 2
       /\ max_spins[t] = 4
       /\ calls[t] = <<"ut_delay", "ut_delay", "os_thread_yield">>
       /\ added[t] = <<<<2, 0>>>>

(* ------------------------------ C19 ------------------------------------ *)

\* Thread t is in is_free and takes a step.
IsFreeStep(t) ==
  /\ pc[t] = "g_isfree"
  /\ (pc'[t] # pc[t] \/ n_spins'[t] # n_spins[t])

\* C19 as stated: is_free delays and increments n_spins only while
\* n_spins < max_spins and the lock word is not UNLOCKED, so entered with
\* n_spins = max_spins it makes no delay and leaves n_spins as it was.
C19_SpinsOnlyBelowBudget ==
  [][\A t \in Threads :
       (IsFreeStep(t)
          /\ (n_spins'[t] # n_spins[t]
                \/ CallCount(t, "ut_delay")' # CallCount(t, "ut_delay")))
         => (n_spins[t] < max_spins[t] /\ m_lock_word # MUTEX_STATE_UNLOCKED)]_vars

\* C19 amended: is_free delays and increments n_spins only while the lock
\* word is not UNLOCKED, one delay per increment; it tests n_spins < max_spins
\* after the increment, so a call entered with n_spins = max_spins and the
\* word not UNLOCKED makes one delay, returns false with n_spins one larger,
\* and the budget is grown to that n_spins + step; whenever the budget is
\* grown it is to the current n_spins + step, with n_spins at or above the old
\* budget.
C19_SpinsThenTests ==
  [][\A t \in Threads :
       IsFreeStep(t) =>
         IF m_lock_word = MUTEX_STATE_UNLOCKED
         THEN /\ n_spins'[t] = n_spins[t]
              /\ max_spins'[t] = max_spins[t]
              /\ calls'[t] = calls[t]
              /\ pc'[t] = "g_try"
         ELSE /\ n_spins'[t] = n_spins[t] + 1
              /\ CallCount(t, "ut_delay")' = CallCount(t, "ut_delay") + 1
              /\ IF n_spins'[t] < max_spins[t]
                 THEN /\ max_spins'[t] = max_spins[t]
                      /\ pc'[t] = "g_isfree"
                 ELSE /\ max_spins'[t] = n_spins'[t] + step[t]
                      /\ pc'[t] = "w_reserve"]_vars

\* C19's case: is_free was entered with n_spins = max_spins = 0 and the mutex
\* locked; it made one delay, n_spins is 1 and the budget was grown to
\* 1 + step = 1 before wait() was called.
C19_Witness ==
  /\ impl = "TTASEventMutex"
  /\ \E t \in Threads :
       /\ pc[t] = "w_reserve"
       /\ step[t] = 0
       /\ n_spins[t] = 1
       /\ max_spins[t] = 1
       /\ calls[t] = <<"ut_delay", "os_thread_yield", "wait">>

(* ------------------------------ C20 ------------------------------------ *)

\* C20: the assertion n_spins <= max_spins at the head of is_free never
\* fails: it holds wherever spin_and_try_lock is about to call is_free or is
\* inside it, after a lost try_lock race, after a growth of the budget and
\* after a wait() that returned false.
C20_IsFreeAssertHolds ==
  /\ failed # "TTASEventMutex::is_free: n_spins <= max_spins"
  /\ \A t \in Threads :
       pc[t] \in {"g_isfree", "g_try", "w_reserve", "w_setw", "w_try", "w_block"}
         => is_free_assert(n_spins[t], max_spins[t]) = "none"

\* C20's case: a thread whose wait() returned false is back in is_free with
\* its grown budget, n_spins equal to max_spins, after a call with
\* max_spins = 0.
C20_Witness ==
  /\ impl = "TTASEventMutex"
  /\ \E t \in Threads :
       /\ pc[t] = "g_isfree"
       /\ n_waits[t] = 1
       /\ step[t] = 0
       /\ n_spins[t] = max_spins[t]
       /\ n_spins[t] = 1

(* ------------------------------ C21 ------------------------------------ *)

\* Thread t's last call was a trylock on an instrumented mutex and it has
\* returned: its span was begun by pfs_begin_trylock and ret is its result.
TrylockReturned(t) ==
  /\ pc[t] \in {"idle", "cs"}
  /\ ret[t] \in {0, 1}
  /\ hooks[t] # <<>>
  /\ hooks[t][1] = "start_mutex_wait(TRYLOCK)"

\* C21 as stated: with a non-null handle, the span begun by trylock is ended
\* with the code trylock returns: end_mutex_wait(0) when the lock was
\* acquired and end_mutex_wait(1) when it was not.
C21_TrylockEndCodeIsRet ==
  \A t \in Threads :
    TrylockReturned(t) =>
      hooks[t][Len(hooks[t])] =
        (IF ret[t] = 0 THEN "end_mutex_wait(0)" ELSE "end_mutex_wait(1)")

(* ------------------------------ C22 ------------------------------------ *)

\* Thread t has just returned from a TTASFutexMutex::enter that acquired in
\* the park phase: it recorded add(max_spins, n_waits), where a spin-phase
\* success records fewer than max_spins rounds.
ParkAcquired(t) ==
  /\ impl = "TTASFutexMutex"
  /\ pc[t] = "p_locked"
  /\ added[t] # <<>>
  /\ added[t][1][1] = max_spins[t]

\* Thread t takes the step of TTASFutexMutex::exit that swaps the lock word.
FutexExitSwap(t) ==
  impl = "TTASFutexMutex" /\ pc[t] = "x_impl" /\ pc'[t] # pc[t]

\* C22: a TTASFutexMutex acquired in the park phase is held with the lock
\* word WAITERS: the acquiring swap leaves WAITERS, whoever else is or is not
\* asleep, and while the mutex is held no step but the holder's exit changes
\* a WAITERS word, so it is never LOCKED; exit goes on to futex_wake exactly
\* when the value it swapped out was WAITERS, which it is for every holder
\* whose word is WAITERS, a thread asleep or not.
C22_ParkAcquirerHoldsWaiters ==
  /\ [](\A t \in Threads : ParkAcquired(t) => m_lock_word = MUTEX_STATE_WAITERS)
  /\ [][\A t \in Threads :
          /\ (pc[t] = "f_swap" /\ pc'[t] = "p_locked")
               => m_lock_word' = MUTEX_STATE_WAITERS
          /\ (impl = "TTASFutexMutex" /\ holds[t] /\ holds'[t]
                /\ m_lock_word = MUTEX_STATE_WAITERS)
               => m_lock_word' = MUTEX_STATE_WAITERS
          /\ FutexExitSwap(t)
               => /\ m_lock_word' = MUTEX_STATE_UNLOCKED
                  /\ (pc'[t] = "x_wake") <=> (m_lock_word = MUTEX_STATE_WAITERS)
                  /\ (pc'[t] = "idle") <=> (m_lock_word # MUTEX_STATE_WAITERS)]_vars

\* C22's case: a thread that entered with max_spins = 0, so acquired in the
\* park phase, is in exit about to call futex_wake while every other thread
\* is idle and has made no call: nobody is waiting.
C22_Witness ==
  /\ impl = "TTASFutexMutex"
  /\ \E t \in Threads :
       /\ pc[t] = "x_wake"
       /\ \A u \in Threads \ {t} : pc[u] = "idle" /\ ret[u] = -1 /\ hooks[u] = <<>>

(* ------------------------------ C23 ------------------------------------ *)

\* C23: TTASEventMutex::enter records nothing when its first try_lock
\* succeeds, where TTASMutex::enter and TTASFutexMutex::enter have recorded one
\* add when they return; inside spin_and_try_lock n_waits, the yields and the
\* wait() calls are the same number and nothing is recorded before the lock is
\* acquired; an enter that acquires in spin_and_try_lock records one
\* add(n_spins, n_waits), n_spins being the delays made, plus 4 when the
\* acquiring step was a try_lock inside wait().
C23_EventAddOnlyContended ==
  /\ [](\A t \in Threads :
          /\ (impl \in {"TTASMutex", "TTASFutexMutex"} /\ Entered(t))
               => Len(added[t]) = 1
          /\ (impl = "TTASEventMutex" /\ (InEnter(t) \/ Entered(t)))
               => /\ CallCount(t, "os_thread_yield") = n_waits[t]
                  /\ CallCount(t, "wait") = n_waits[t]
                  /\ Len(added[t]) <= 1
          /\ (impl = "TTASEventMutex" /\ InEnter(t))
               => /\ added[t] = <<>>
                  /\ CallCount(t, "ut_delay") = n_spins[t])
  /\ [][impl = "TTASEventMutex" =>
          \A t \in Threads :
            /\ (pc[t] = "g_enter" /\ pc'[t] = "p_locked")
                 => added'[t] = <<>> /\ calls'[t] = <<>>
            /\ (pc[t] = "g_try" /\ pc'[t] = "p_locked")
                 => added'[t] = <<<<n_spins[t], n_waits[t]>>>>
            /\ (pc[t] = "w_try" /\ pc'[t] = "p_locked")
                 => /\ added'[t] = <<<<n_spins[t] + 4, n_waits[t]>>>>
                    /\ n_waits[t] > 0]_vars

\* C23's case: a contended enter with max_spins = 1 that made one delay, one
\* yield and one wait(), acquired inside wait() and recorded add(1 + 4, 1).
C23_Witness ==
  /\ impl = "TTASEventMutex"
  /\ \E t \in Threads :
       /\ pc[t] = "p_locked"
       /\ step[t] = 1
       /\ calls[t] = <<"ut_delay", "os_thread_yield", "wait">>
       /\ added[t] = <<<<5, 1>>>>

====
